---- MODULE Spec2Model ----
(***************************************************************************)
(* Model of analysis/merge_and_save_updated.py: a single-pass batch job    *)
(* that reads five CSV files (plus an optional continuation file),         *)
(* normalises the date column and the sales column names, left-joins the   *)
(* tables on `date`, sorts, reorders the columns and writes one CSV.       *)
(*                                                                         *)
(* A column name and a text cell are sequences of one-character strings,   *)
(* so that lower-casing, stripping and substring search are computed.      *)
(* A table is [cols, rows]: cols is the sequence of column labels (labels  *)
(* may repeat, as in a pandas DataFrame) and every row is a sequence of    *)
(* cells aligned with cols.                                                *)
(***************************************************************************)
EXTENDS Integers, Sequences, FiniteSets, TLC

\* ------------------------------------------------------------------------
\* Bounds of the explored inputs
\* ------------------------------------------------------------------------
MaxCols == 3
MaxSalesRows == 1
MaxTestRows == 2
MaxAuxRows == 2

\* ------------------------------------------------------------------------
\* Characters and text (Python str)
\* ------------------------------------------------------------------------
UpperChars == <<"A","B","C","D","E","F","G","H","I","J","K","L","M",
                "N","O","P","Q","R","S","T","U","V","W","X","Y","Z">>
LowerChars == <<"a","b","c","d","e","f","g","h","i","j","k","l","m",
                "n","o","p","q","r","s","t","u","v","w","x","y","z">>

\* the characters the model uses, in code-point order
AsciiOrder == <<" ", ",", ".", "/", "0", "1", "2", "3", "4", "5", "6", "7",
                "8", "9", "<", ">">> \o UpperChars \o <<"_">> \o LowerChars

RECURSIVE PosIn(_, _, _)
PosIn(c, tup, i) ==
    IF i > Len(tup) THEN 0
    ELSE IF tup[i] = c THEN i ELSE PosIn(c, tup, i + 1)

\* the code-point rank of each character, tabulated once
OrdTable ==
    [c \in {AsciiOrder[i] : i \in 1..Len(AsciiOrder)} |-> PosIn(c, AsciiOrder, 1)]

\* ord(c), up to an order-preserving renumbering
Ord(c) == OrdTable[c]

\* the lower-case letter of each upper-case letter, tabulated once
LowerTable ==
    [c \in {UpperChars[i] : i \in 1..Len(UpperChars)} |->
        LowerChars[PosIn(c, UpperChars, 1)]]

\* str.lower() on one character
LowerChar(c) == IF c \in DOMAIN LowerTable THEN LowerTable[c] ELSE c

\* str.lower()
Lower(s) == [i \in 1..Len(s) |-> LowerChar(s[i])]

RECURSIVE LStrip(_)
LStrip(s) == IF s # <<>> /\ Head(s) = " " THEN LStrip(Tail(s)) ELSE s

RECURSIVE RStrip(_)
RStrip(s) ==
    IF s # <<>> /\ s[Len(s)] = " " THEN RStrip(SubSeq(s, 1, Len(s) - 1)) ELSE s

\* str.strip()
Strip(s) == RStrip(LStrip(s))

\* `k in s` for strings: k occurs in s as a contiguous substring
Contains(k, s) ==
    \E i \in 1..(Len(s) - Len(k) + 1) : SubSeq(s, i, i + Len(k) - 1) = k

\* s < t for Python strings (lexicographic by code point)
RECURSIVE StrLess(_, _)
StrLess(s, t) ==
    IF t = <<>> THEN FALSE
    ELSE IF s = <<>> THEN TRUE
    ELSE IF Ord(Head(s)) # Ord(Head(t)) THEN Ord(Head(s)) < Ord(Head(t))
    ELSE StrLess(Tail(s), Tail(t))

\* s.replace(',', '.')
ReplaceComma(s) == [i \in 1..Len(s) |-> IF s[i] = "," THEN "." ELSE s[i]]

\* ------------------------------------------------------------------------
\* Cells.  k is the kind of value, t its text (kind "str"), n its number:
\* tenths for kind "num", the day ordinal for kind "date".
\* NaN is numpy's missing float (an empty CSV cell), NA is pd.NA, NaT the
\* missing timestamp.
\* ------------------------------------------------------------------------
Str(t) == [k |-> "str", t |-> t, n |-> 0]
Num(n) == [k |-> "num", t |-> <<>>, n |-> n]
Date(n) == [k |-> "date", t |-> <<>>, n |-> n]
NaN == [k |-> "NaN", t |-> <<>>, n |-> 0]
NA == [k |-> "NA", t |-> <<>>, n |-> 0]
NaT == [k |-> "NaT", t |-> <<>>, n |-> 0]

\* pd.isna
IsNA(v) == v.k \in {"NaN", "NA", "NaT"}

\* texts used in the input files
T_d1 == <<"1", "/", "1">>
T_d2 == <<"1", "/", "2">>
T_bad == <<"b", "a", "d">>
T_A == <<"A">>
T_z == <<"z">>
T_5c0 == <<"5", ",", "0">>
T_5p0 == <<"5", ".", "0">>
T_3p6 == <<"3", ".", "6">>
T_1 == <<"1">>
T_nan == <<"n", "a", "n">>
T_NA == <<"<", "N", "A", ">">>

\* pd.to_datetime(col, errors='coerce') on one cell
ToDatetime(v) ==
    IF v.k = "date" THEN v
    ELSE IF v.k # "str" THEN NaT
    ELSE IF v.t = T_d1 THEN Date(1)
    ELSE IF v.t = T_d2 THEN Date(2)
    ELSE NaT

\* float(text) for the numeric texts of the model, in tenths
ParseFloat(t) ==
    IF t = T_5p0 THEN Num(50)
    ELSE IF t = T_3p6 THEN Num(36)
    ELSE IF t = T_1 THEN Num(10)
    ELSE NaN

\* pd.to_numeric(col.astype(str).str.replace(',', '.'), errors='coerce')
\* on one cell: a number prints and parses back to itself, a missing value
\* prints as a text that does not parse
ToNumericComma(v) ==
    IF v.k = "num" THEN v
    ELSE IF v.k = "str" THEN ParseFloat(ReplaceComma(v.t))
    ELSE NaN

\* pd.to_numeric(col, errors='coerce').round(0).astype('Int64') on one cell
\* (round half to even, on tenths)
RoundInt(v) ==
    LET x == IF v.k = "num" THEN v ELSE IF v.k = "str" THEN ParseFloat(v.t) ELSE NaN
        q == x.n \div 10
        r == x.n % 10
    IN  IF x.k # "num" THEN NA
        ELSE IF r < 5 THEN Num(10 * q)
        ELSE IF r > 5 THEN Num(10 * (q + 1))
        ELSE IF q % 2 = 0 THEN Num(10 * q) ELSE Num(10 * (q + 1))

\* col.fillna(0)
FillNa0(v) == IF IsNA(v) THEN Num(0) ELSE v

\* the cell conversions main and its helpers apply to whole columns
Convert(how, v) ==
    CASE how = "to_datetime" -> ToDatetime(v)
      [] how = "to_numeric" -> ToNumericComma(v)
      [] how = "round_int" -> RoundInt(v)
      [] how = "fillna0" -> FillNa0(v)

\* ------------------------------------------------------------------------
\* Column names
\* ------------------------------------------------------------------------
N_date == <<"d", "a", "t", "e">>
N_Datum == <<"D", "a", "t", "u", "m">>
N_sp_date == <<" ", "d", "a", "t", "e">>
N_DATE == <<"D", "A", "T", "E">>
N_id == <<"i", "d">>
N_paid == <<"p", "a", "i", "d">>
N_warengruppe == <<"w", "a", "r", "e", "n", "g", "r", "u", "p", "p", "e">>
N_Warengruppe == <<"W", "a", "r", "e", "n", "g", "r", "u", "p", "p", "e">>
N_umsatz == <<"u", "m", "s", "a", "t", "z">>
N_Umsatz == <<"U", "m", "s", "a", "t", "z">>
N_note == <<"n", "o", "t", "e">>
N_sp_note == <<" ", "n", "o", "t", "e">>
N_Bewoelkung == <<"B", "e", "w", "o", "e", "l", "k", "u", "n", "g">>
N_Temperatur == <<"T", "e", "m", "p", "e", "r", "a", "t", "u", "r">>
N_Windgeschwindigkeit == <<"W", "i", "n", "d", "g", "e", "s", "c", "h", "w", "i", "n", "d", "i", "g", "k", "e", "i", "t">>
N_Wettercode == <<"W", "e", "t", "t", "e", "r", "c", "o", "d", "e">>
N_KielerWoche == <<"K", "i", "e", "l", "e", "r", "W", "o", "c", "h", "e">>
N_school_holiday == <<"s", "c", "h", "o", "o", "l", "_", "h", "o", "l", "i", "d", "a", "y">>
N_public_holiday == <<"p", "u", "b", "l", "i", "c", "_", "h", "o", "l", "i", "d", "a", "y">>
N_is_holiday == <<"i", "s", "_", "h", "o", "l", "i", "d", "a", "y">>
N_name == <<"n", "a", "m", "e">>
N_wareng == <<"w", "a", "r", "e", "n", "g">>
N_id_sort == <<"_", "i", "d", "_", "s", "o", "r", "t">>

\* ------------------------------------------------------------------------
\* Tables (pandas DataFrame)
\* ------------------------------------------------------------------------
Range(s) == {s[i] : i \in 1..Len(s)}

\* positions of the columns labelled c
Positions(cols, c) == {i \in 1..Len(cols) : cols[i] = c}

\* `c in df.columns`
HasCol(t, c) == Positions(t.cols, c) # {}

\* a label that selects exactly one column
UniqueCol(t, c) == Cardinality(Positions(t.cols, c)) = 1

\* position of the single column labelled c
ColPos(t, c) == CHOOSE i \in Positions(t.cols, c) : TRUE

\* df.rename(columns={old: new}): every column labelled old is relabelled
Rename(t, old, new) ==
    [t EXCEPT !.cols = [i \in 1..Len(t.cols) |->
                            IF t.cols[i] = old THEN new ELSE t.cols[i]]]

\* df.rename(columns={c: c.strip() for c in df.columns})
StripColumns(t) ==
    [t EXCEPT !.cols = [i \in 1..Len(t.cols) |-> Strip(t.cols[i])]]

\* df[c] = convert(df[c]), cell by cell on the column(s) labelled c
MapCol(t, c, how) ==
    [t EXCEPT !.rows = [r \in 1..Len(t.rows) |->
        [i \in 1..Len(t.cols) |->
            IF t.cols[i] = c THEN Convert(how, t.rows[r][i]) ELSE t.rows[r][i]]]]

\* df[c] = scalar: overwrites the column(s) labelled c, or appends a new
\* last column when there is none
SetScalar(t, c, v) ==
    IF HasCol(t, c)
    THEN [t EXCEPT !.rows = [r \in 1..Len(t.rows) |->
             [i \in 1..Len(t.cols) |-> IF t.cols[i] = c THEN v ELSE t.rows[r][i]]]]
    ELSE [cols |-> Append(t.cols, c),
          rows |-> [r \in 1..Len(t.rows) |-> Append(t.rows[r], v)]]

\* the column positions df[labels] takes: for each label in turn, every
\* column carrying that label (so a repeated label repeats its columns)
RECURSIVE TakeIndexer(_, _)
TakeIndexer(cols, labels) ==
    IF labels = <<>> THEN <<>>
    ELSE LET c == Head(labels)
             hits == SelectSeq([i \in 1..Len(cols) |-> i],
                               LAMBDA i : cols[i] = c)
         IN  hits \o TakeIndexer(cols, Tail(labels))

\* df[labels] (raises KeyError unless every label is a column)
CanSelect(t, labels) == \A i \in 1..Len(labels) : HasCol(t, labels[i])

Select(t, labels) ==
    LET ix == TakeIndexer(t.cols, labels) IN
    [cols |-> [j \in 1..Len(ix) |-> t.cols[ix[j]]],
     rows |-> [r \in 1..Len(t.rows) |->
                 [j \in 1..Len(ix) |-> t.rows[r][ix[j]]]]]

\* df.drop(columns=[c])
DropCol(t, c) ==
    LET keep == SelectSeq([i \in 1..Len(t.cols) |-> i],
                          LAMBDA i : t.cols[i] # c) IN
    [cols |-> [j \in 1..Len(keep) |-> t.cols[keep[j]]],
     rows |-> [r \in 1..Len(t.rows) |->
                 [j \in 1..Len(keep) |-> t.rows[r][keep[j]]]]]

\* ------------------------------------------------------------------------
\* The functions of merge_and_save_updated.py
\* ------------------------------------------------------------------------
\* Python's None, as a label no column has
None == <<"None">>

\* the empty table, and the result of a step: err is "" on success and the
\* name of the raised exception otherwise
NoTable == [cols |-> <<>>, rows |-> <<>>]
Ok(t) == [err |-> "", df |-> t]
Raise(e) == [err |-> e, df |-> NoTable]

candidates == <<N_date, <<"d", "a", "t", "u", "m">>, N_Datum, <<"D", "A", "T", "U", "M">>>>

\* the label at the first of the positions hits, or None: what a
\* `for c in df.columns: if ...: return c` loop followed by `return None`
\* returns when hits are the positions that pass the test
FirstMatch(cols, hits) ==
    IF hits = {} THEN None
    ELSE cols[CHOOSE i \in hits : \A j \in hits : i <= j]

\* find_date_column with the candidates compared as written, without lower()
find_date_column_exact(df) ==
    FirstMatch(df.cols, {i \in 1..Len(df.cols) : df.cols[i] \in Range(candidates)})

\* find_date_column(df)
find_date_column(df) ==
    LET lowered == {Lower(candidates[i]) : i \in 1..Len(candidates)} IN
    FirstMatch(df.cols, {i \in 1..Len(df.cols) : Lower(df.cols[i]) \in lowered})

\* lines 24-26: parse the date column, name it `date`, strip the names
normalize_date(df, date_col) ==
    IF date_col = None THEN Raise("ValueError")
    ELSE Ok(StripColumns(Rename(MapCol(df, date_col, "to_datetime"),
                                date_col, N_date)))

\* read_and_normalize(path); file is what pd.read_csv finds at the path
read_and_normalize(file) ==
    IF ~file.exists THEN Raise("FileNotFoundError")
    ELSE IF ~file.readable THEN Raise("OSError")
    ELSE normalize_date([cols |-> file.cols, rows |-> file.rows],
                        find_date_column(file))

\* find_column(df, keywords)
find_column(df, keywords) ==
    LET kws == {Lower(keywords[i]) : i \in 1..Len(keywords)} IN
    FirstMatch(df.cols, {i \in 1..Len(df.cols) :
                            \E k \in kws : Contains(k, Lower(df.cols[i]))})

\* `if col and col != name: df = df.rename(columns={col: name})`
RenameTo(df, col, name) ==
    IF col # None /\ col # name THEN Rename(df, col, name) ELSE df

\* lines 42-44
resolve_id(df) == RenameTo(df, find_column(df, <<N_id>>), N_id)

\* lines 47-49
resolve_warengruppe(df) ==
    RenameTo(df, find_column(df, <<N_wareng, N_warengruppe>>), N_warengruppe)

\* line 56 (and 123); df['umsatz'] is a DataFrame, which has no .str, when
\* the label repeats
coerce_umsatz(df) ==
    IF ~UniqueCol(df, N_umsatz) THEN Raise("AttributeError")
    ELSE Ok(MapCol(df, N_umsatz, "to_numeric"))

\* lines 52-58
resolve_umsatz(df) ==
    IF find_column(df, <<N_umsatz>>) = None THEN Ok(SetScalar(df, N_umsatz, NA))
    ELSE coerce_umsatz(RenameTo(df, find_column(df, <<N_umsatz>>), N_umsatz))

\* lines 61-62
ensure_id(df) == IF ~HasCol(df, N_id) THEN SetScalar(df, N_id, NA) ELSE df

\* lines 61-65, r being the outcome of lines 42-58
finish_standardize(r) ==
    IF r.err # "" THEN r ELSE Ok(StripColumns(ensure_id(r.df)))

\* standardize_sales_df(df)
standardize_sales_df(df) ==
    finish_standardize(resolve_umsatz(resolve_warengruppe(resolve_id(df))))

\* ------------------------------------------------------------------------
\* pandas operations used by main
\* ------------------------------------------------------------------------
\* a < b for two present cells of one kind
ValLess(a, b) ==
    IF a.k = "str" THEN StrLess(a.t, b.t) ELSE a.n < b.n

\* the ordering of one sort key with na_position='first'
KeyLess_na_first(a, b) ==
    IF IsNA(b) THEN FALSE ELSE IF IsNA(a) THEN TRUE ELSE ValLess(a, b)

\* ordering of one sort key with na_position='last'
KeyLess(a, b) ==
    IF IsNA(a) THEN FALSE ELSE IF IsNA(b) THEN TRUE ELSE ValLess(a, b)

KeyEq(a, b) == (IsNA(a) /\ IsNA(b)) \/ a = b

\* lexicographic order of two rows on the key positions ks
RECURSIVE LexLess(_, _, _)
LexLess(r1, r2, ks) ==
    IF ks = <<>> THEN FALSE
    ELSE IF KeyLess(r1[Head(ks)], r2[Head(ks)]) THEN TRUE
    ELSE IF ~KeyEq(r1[Head(ks)], r2[Head(ks)]) THEN FALSE
    ELSE LexLess(r1, r2, Tail(ks))

\* the present cells of a key column can be compared with each other
Comparable(t, c) ==
    \A r1, r2 \in 1..Len(t.rows) :
        LET a == t.rows[r1][ColPos(t, c)]
            b == t.rows[r2][ColPos(t, c)]
        IN  IsNA(a) \/ IsNA(b) \/ a.k = b.k

\* df.sort_values(by=keys, na_position='last'): the stable (lexsort) order.
\* Row i goes to the place given by the number of rows that precede it.
sort_values(t, keys) ==
    LET ks == [i \in 1..Len(keys) |-> ColPos(t, keys[i])]
        n == Len(t.rows)
        before(j, i) == \/ LexLess(t.rows[j], t.rows[i], ks)
                        \/ (~LexLess(t.rows[i], t.rows[j], ks) /\ j < i)
        rank(i) == Cardinality({j \in 1..n : j # i /\ before(j, i)})
    IN  [t EXCEPT !.rows = [k \in 1..n |->
                               t.rows[CHOOSE i \in 1..n : rank(i) = k - 1]]]

\* sort_values raises when a key label selects several columns or its
\* cells cannot be ordered
CanSort(t, keys) ==
    \A i \in 1..Len(keys) : UniqueCol(t, keys[i]) /\ Comparable(t, keys[i])

\* pd.concat([a, b], ignore_index=True) of two frames with equal column
\* indexes; unequal indexes here mean that one of them repeats a label,
\* which concat cannot reindex
CanConcat(a, b) == a.cols = b.cols

concat(a, b) == [cols |-> a.cols, rows |-> a.rows \o b.rows]

\* col.astype(str).fillna('') on one cell.  Before pandas 3 astype(str)
\* prints a missing value ('nan', '<NA>') and fillna finds nothing to fill;
\* from pandas 3 on the missing value is kept and then filled with ''.
AsTypeStrFillna(v, version) ==
    IF v.k = "str" THEN v
    ELSE IF version = "pandas3" THEN Str(<<>>)
    ELSE IF v.k = "NA" THEN Str(T_NA)
    ELSE Str(T_nan)

\* df.replace('', pd.NA)
ReplaceEmpty(t) ==
    [t EXCEPT !.rows = [r \in 1..Len(t.rows) |->
        [i \in 1..Len(t.cols) |->
            IF t.rows[r][i] = Str(<<>>) THEN NA ELSE t.rows[r][i]]]]

\* labels of a merge result: a label other than the key that both sides
\* carry gets the side's suffix
Suffixed(cols, other, sfx) ==
    [i \in 1..Len(cols) |->
        IF cols[i] # N_date /\ cols[i] \in Range(other)
        THEN cols[i] \o sfx ELSE cols[i]]

\* left.merge(right, on='date', how='left') needs the key to be a single
\* column on both sides
CanMerge(left, right) == UniqueCol(left, N_date) /\ UniqueCol(right, N_date)

\* the rows of the left join for one left row: one per right row with an
\* equal key, in the right table's order (a missing key equals a missing
\* key), or the left row padded with NaN when there is none
JoinRow(lrow, lkey, right) ==
    LET rk == ColPos(right, N_date)
        rest == SelectSeq([i \in 1..Len(right.cols) |-> i], LAMBDA i : i # rk)
        pick(rrow) == [j \in 1..Len(rest) |-> rrow[rest[j]]]
        hits == SelectSeq(right.rows, LAMBDA rrow : rrow[rk] = lkey)
    IN  IF hits = <<>>
        THEN <<lrow \o [j \in 1..Len(rest) |-> NaN]>>
        ELSE [h \in 1..Len(hits) |-> lrow \o pick(hits[h])]

RECURSIVE JoinRows(_, _, _)
JoinRows(lrows, lk, right) ==
    IF lrows = <<>> THEN <<>>
    ELSE JoinRow(Head(lrows), Head(lrows)[lk], right)
             \o JoinRows(Tail(lrows), lk, right)

merge(left, right) ==
    LET rk == ColPos(right, N_date)
        rest == SelectSeq([i \in 1..Len(right.cols) |-> i], LAMBDA i : i # rk)
        rcols == [j \in 1..Len(rest) |-> right.cols[rest[j]]]
    IN  [cols |-> Suffixed(left.cols, rcols, <<"_", "x">>)
                      \o Suffixed(rcols, left.cols, <<"_", "y">>),
         rows |-> JoinRows(left.rows, ColPos(left, N_date), right)]

\* ------------------------------------------------------------------------
\* main(), step by step
\* ------------------------------------------------------------------------
desired_cols == <<N_date, N_id, N_warengruppe, N_umsatz>>

int_cols == <<N_Bewoelkung, N_Windgeschwindigkeit, N_KielerWoche>>

preferred == <<N_date, N_warengruppe, N_id, N_umsatz,
               N_Bewoelkung, N_Temperatur, N_Windgeschwindigkeit, N_Wettercode,
               N_KielerWoche, N_school_holiday, N_public_holiday>>

\* for c in desired_cols: if c not in df.columns: df[c] = pd.NA
RECURSIVE PadColumns(_, _)
PadColumns(t, cs) ==
    IF cs = <<>> THEN t
    ELSE PadColumns(IF HasCol(t, Head(cs)) THEN t ELSE SetScalar(t, Head(cs), NA),
                    Tail(cs))

\* lines 103-112, for one of the two tables: pad, replace '', take the four
\* columns
pad_and_select(t) ==
    Select(ReplaceEmpty(PadColumns(t, desired_cols)), desired_cols)

\* line 114
with_id_sort(c, version) ==
    [cols |-> Append(c.cols, N_id_sort),
     rows |-> [r \in 1..Len(c.rows) |->
                 Append(c.rows[r],
                        AsTypeStrFillna(c.rows[r][ColPos(c, N_id)], version))]]

\* lines 113-116 on the concatenated table c
sort_combined(c, version) ==
    \* pd.to_datetime of a DataFrame, and a DataFrame assigned to the
    \* single column _id_sort
    IF ~UniqueCol(c, N_date) \/ ~UniqueCol(c, N_id) THEN Raise("ValueError")
    ELSE Ok(Select(DropCol(sort_values(with_id_sort(MapCol(c, N_date, "to_datetime"),
                                                    version),
                                       <<N_date, N_id_sort>>),
                           N_id_sort),
                   desired_cols))

\* line 112 and what follows it
concat_and_sort(a, b, version) ==
    IF ~CanConcat(a, b) THEN Raise("InvalidIndexError")
    ELSE sort_combined(concat(a, b), version)

\* lines 102-118
combine_sales(sales, test_df, version) ==
    concat_and_sort(pad_and_select(sales), pad_and_select(test_df), version)

\* lines 97-99: the continuation file, when there is one
read_continuation_lenient(file) ==
    IF read_and_normalize(file).err # "" THEN Ok(NoTable)
    ELSE read_and_normalize(file)

read_continuation(file) ==
    IF ~file.exists THEN Ok(NoTable) ELSE read_and_normalize(file)

\* lines 122-125
ensure_numeric(sales) ==
    IF ~HasCol(sales, N_umsatz) THEN Ok(SetScalar(sales, N_umsatz, NA))
    ELSE coerce_umsatz(sales)

\* lines 87-88
prepare_school(t) ==
    Ok(Select(SetScalar(t, N_school_holiday, Num(10)),
              <<N_date, N_school_holiday>>))

\* lines 91-92
prepare_public(t) ==
    LET p == Rename(t, N_is_holiday, N_public_holiday) IN
    IF ~CanSelect(p, <<N_date, N_public_holiday>>) THEN Raise("KeyError")
    ELSE Ok(Select(p, <<N_date, N_public_holiday>>))

\* one of the four joins of lines 129-134
merge_step(left, right) ==
    IF ~CanMerge(left, right) THEN Raise("ValueError")
    ELSE Ok(merge(left, right))

\* lines 136-137
fill_holidays(m) ==
    IF ~HasCol(m, N_school_holiday) \/ ~HasCol(m, N_public_holiday)
    THEN Raise("KeyError")
    ELSE Ok(MapCol(MapCol(m, N_school_holiday, "fillna0"), N_public_holiday, "fillna0"))

\* lines 141-144
RECURSIVE CoerceInts(_, _)
CoerceInts(m, cs) ==
    IF cs = <<>> THEN m
    ELSE CoerceInts(IF HasCol(m, Head(cs)) THEN MapCol(m, Head(cs), "round_int") ELSE m,
                    Tail(cs))

coerce_int_cols(m) ==
    \* pd.to_numeric does not take a DataFrame
    IF \E i \in 1..Len(int_cols) : HasCol(m, int_cols[i]) /\ ~UniqueCol(m, int_cols[i])
    THEN Raise("TypeError")
    ELSE Ok(CoerceInts(m, int_cols))

\* lines 147-149
sort_keys(m) ==
    SelectSeq(<<N_date, N_warengruppe, N_id>>, LAMBDA k : HasCol(m, k))

reorder_rows(m) ==
    IF sort_keys(m) = <<>> THEN Ok(m)
    ELSE IF ~CanSort(m, sort_keys(m)) THEN Raise("ValueError")
    ELSE Ok(sort_values(m, sort_keys(m)))

\* lines 152-156
cols_order(m) ==
    SelectSeq(preferred, LAMBDA c : HasCol(m, c))
        \o SelectSeq(m.cols, LAMBDA c : c \notin Range(preferred))

\* line 157
reorder_columns(m) == Select(m, cols_order(m))

\* ------------------------------------------------------------------------
\* Input files.  A file is what pd.read_csv returns for its path: the header
\* as written (read_csv keeps the names distinct) and the cells, numbers
\* already parsed; `exists` and `readable` say whether the read succeeds.
\* ------------------------------------------------------------------------
MkFile(cols, rows) ==
    [exists |-> TRUE, readable |-> TRUE, cols |-> cols, rows |-> rows]
Absent == [exists |-> FALSE, readable |-> FALSE, cols |-> <<>>, rows |-> <<>>]
Unreadable == [exists |-> TRUE, readable |-> FALSE, cols |-> <<>>, rows |-> <<>>]

SeqsUpTo(S, n) == UNION {[1..k -> S] : k \in 0..n}

\* a row of a sales file is written from a date cell and an id cell
Seed(d, i) == [date |-> d, id |-> i]

CellFor(name, seed) ==
    LET l == Lower(Strip(name)) IN
    IF l \in {N_date, Lower(N_Datum)} THEN seed.date
    ELSE IF Contains(N_id, l) THEN seed.id
    ELSE IF Contains(N_wareng, l) THEN Num(10)
    ELSE IF Contains(N_umsatz, l) THEN Str(T_5c0)
    ELSE Str(T_A)

SalesFile(cols, seeds) ==
    MkFile(cols, [r \in 1..Len(seeds) |->
                    [i \in 1..Len(cols) |-> CellFor(cols[i], seeds[r])]])

\* header names a sales file is written with
NamePool == {N_Datum, N_id, N_paid, N_Warengruppe, N_warengruppe,
             N_note, N_sp_note}

Headers == {h \in SeqsUpTo(NamePool, MaxCols) :
               \A i, j \in 1..Len(h) : i # j => h[i] # h[j]}

DateCells == {Str(T_d1), Str(T_d2), Str(T_bad)}

SalesSeeds == {Seed(Str(T_d1), Str(T_A)), Seed(Str(T_d1), Str(T_z)),
               Seed(Str(T_d1), NaN), Seed(Str(T_d2), Str(T_A)),
               Seed(Str(T_bad), Str(T_A))}

DateSeeds == {Seed(d, Str(T_A)) : d \in DateCells}

\* rows of the primary sales file when the continuation rows vary
PrimarySeeds == {Seed(Str(T_d1), Str(T_z)), Seed(Str(T_bad), Str(T_A))}

\* date cells of an auxiliary file
AuxDateCells == {Str(T_d1), Str(T_bad)}

StdSalesCols == <<N_id, N_Datum, N_Warengruppe, N_Umsatz>>
StdTestCols == <<N_id, N_Datum, N_Warengruppe>>
NoIdTestCols == <<N_Datum, N_Warengruppe>>

WetterCols == <<N_Datum, N_Bewoelkung, N_Temperatur, N_Windgeschwindigkeit, N_Wettercode>>
WetterFile(dates) ==
    MkFile(WetterCols,
           [r \in 1..Len(dates) |-> <<dates[r], Num(36), Num(36), Num(50), Num(10)>>])
KiwoFile(dates) ==
    MkFile(<<N_Datum, N_KielerWoche>>, [r \in 1..Len(dates) |-> <<dates[r], Num(10)>>])
SchoolFile(dates) ==
    MkFile(<<N_date, N_name>>, [r \in 1..Len(dates) |-> <<dates[r], Str(T_A)>>])
PublicFile(dates) ==
    MkFile(<<N_date, N_is_holiday>>, [r \in 1..Len(dates) |-> <<dates[r], Num(10)>>])

\* a weather file that also has a free-text column
WetterNoteFile == MkFile(<<N_Datum, N_Temperatur, N_note>>,
                         << <<Str(T_d1), Num(36), Str(T_z)>> >>)

\* a file whose only date-like header has a leading blank
NoDateFile == MkFile(<<N_sp_date, N_Temperatur>>, << <<Str(T_d1), Num(36)>> >>)

OneDay == <<Str(T_d1)>>

Files(u, w, k, s, p, t) ==
    [umsatz |-> u, wetter |-> w, kiwo |-> k, school |-> s, public |-> p, test |-> t]

\* sales and continuation headers vary
HeaderInputs ==
    {Files(SalesFile(h, <<Seed(Str(T_d1), Str(T_A))>>), WetterFile(OneDay),
           KiwoFile(OneDay), SchoolFile(OneDay), PublicFile(OneDay), t) :
        h \in Headers, t \in {Absent}}
    \cup
    {Files(SalesFile(h, <<Seed(Str(T_d1), Str(T_A))>>), WetterFile(OneDay),
           KiwoFile(OneDay), SchoolFile(OneDay), PublicFile(OneDay),
           SalesFile(h, <<Seed(Str(T_d2), Str(T_z))>>)) : h \in Headers}

\* sales and continuation rows vary
RowInputs ==
    {Files(SalesFile(StdSalesCols, rs), WetterFile(OneDay), KiwoFile(OneDay),
           SchoolFile(OneDay), PublicFile(OneDay), t) :
        rs \in SeqsUpTo(PrimarySeeds, MaxSalesRows),
        t \in {Absent}
              \cup {SalesFile(StdTestCols, ts) : ts \in SeqsUpTo(SalesSeeds, MaxTestRows)}
              \cup {SalesFile(NoIdTestCols, ts) : ts \in SeqsUpTo(DateSeeds, MaxTestRows)}}

\* the rows of one auxiliary table vary
AuxInputs ==
    {Files(SalesFile(StdSalesCols, rs),
           WetterFile(IF which = 1 THEN ds ELSE OneDay),
           KiwoFile(IF which = 2 THEN ds ELSE OneDay),
           SchoolFile(IF which = 3 THEN ds ELSE OneDay),
           PublicFile(IF which = 4 THEN ds ELSE OneDay), Absent) :
        rs \in SeqsUpTo(DateSeeds, MaxSalesRows),
        ds \in SeqsUpTo(AuxDateCells, MaxAuxRows),
        which \in 1..4}

\* the presence and shape of each file vary
FileInputs ==
    LET one == <<Seed(Str(T_d1), Str(T_A))>>
        good == SalesFile(<<N_Datum, N_id, N_Umsatz, N_note>>, one)
        two_dates == {SalesFile(<<N_note, N_Datum, N_date>>, one),
                      SalesFile(<<N_DATE, N_id, N_Datum>>, one)}
        kinds(g) == {Absent, NoDateFile, g}
    IN  {Files(u, w, k, s, p, t) :
            u \in kinds(good) \cup {Unreadable} \cup two_dates,
            w \in kinds(WetterNoteFile),
            k \in kinds(KiwoFile(OneDay)), s \in kinds(SchoolFile(OneDay)),
            p \in kinds(PublicFile(OneDay)) \cup {SchoolFile(OneDay)},
            t \in kinds(good) \cup {Unreadable}}

Inputs == HeaderInputs \cup RowInputs \cup AuxInputs \cup FileInputs

\* pandas releases that differ in astype(str) on missing values
PandasVersions == {"pandas2", "pandas3"}

\* ------------------------------------------------------------------------
\* The run as a state machine
\* ------------------------------------------------------------------------
VARIABLES fs, pc, err, umsatz, test_df, wetter, kiwo, school, public, merged, out

vars == <<fs, pc, err, umsatz, test_df, wetter, kiwo, school, public, merged, out>>

Init ==
    /\ fs \in Inputs
    /\ pc = "read_umsatz"
    /\ err = ""
    /\ umsatz = NoTable
    /\ test_df = NoTable
    /\ wetter = NoTable
    /\ kiwo = NoTable
    /\ school = NoTable
    /\ public = NoTable
    /\ merged = NoTable
    /\ out = [writes |-> 0, df |-> NoTable]

\* the statement with outcome r is followed by the step `next`, or its
\* exception leaves main (the handler of lines 168-172 prints and re-raises)
Advance(r, next) ==
    /\ pc' = IF r.err = "" THEN next ELSE "failed"
    /\ err' = r.err

\* the value of the assigned name after the statement with outcome r
Assigned(r, old) == IF r.err = "" THEN r.df ELSE old

\* line 75
ReadUmsatz ==
    /\ pc = "read_umsatz"
    /\ \E r \in {read_and_normalize(fs.umsatz)} :
          Advance(r, "read_wetter") /\ umsatz' = Assigned(r, umsatz)
    /\ UNCHANGED <<fs, test_df, wetter, kiwo, school, public, merged, out>>

\* line 76
ReadWetter ==
    /\ pc = "read_wetter"
    /\ \E r \in {read_and_normalize(fs.wetter)} :
          Advance(r, "read_kiwo") /\ wetter' = Assigned(r, wetter)
    /\ UNCHANGED <<fs, umsatz, test_df, kiwo, school, public, merged, out>>

\* line 77
ReadKiwo ==
    /\ pc = "read_kiwo"
    /\ \E r \in {read_and_normalize(fs.kiwo)} :
          Advance(r, "read_school") /\ kiwo' = Assigned(r, kiwo)
    /\ UNCHANGED <<fs, umsatz, test_df, wetter, school, public, merged, out>>

\* line 83
ReadSchool ==
    /\ pc = "read_school"
    /\ \E r \in {read_and_normalize(fs.school)} :
          Advance(r, "read_public") /\ school' = Assigned(r, school)
    /\ UNCHANGED <<fs, umsatz, test_df, wetter, kiwo, public, merged, out>>

\* line 84
ReadPublic ==
    /\ pc = "read_public"
    /\ \E r \in {read_and_normalize(fs.public)} :
          Advance(r, "prepare_school") /\ public' = Assigned(r, public)
    /\ UNCHANGED <<fs, umsatz, test_df, wetter, kiwo, school, merged, out>>

\* lines 87-88
PrepareSchool ==
    /\ pc = "prepare_school"
    /\ \E r \in {prepare_school(school)} :
          Advance(r, "prepare_public") /\ school' = Assigned(r, school)
    /\ UNCHANGED <<fs, umsatz, test_df, wetter, kiwo, public, merged, out>>

\* lines 91-92
PreparePublic ==
    /\ pc = "prepare_public"
    /\ \E r \in {prepare_public(public)} :
          Advance(r, "standardize") /\ public' = Assigned(r, public)
    /\ UNCHANGED <<fs, umsatz, test_df, wetter, kiwo, school, merged, out>>

\* line 96
StandardizeSales ==
    /\ pc = "standardize"
    /\ \E r \in {standardize_sales_df(umsatz)} :
          Advance(r, "read_continuation") /\ umsatz' = Assigned(r, umsatz)
    /\ UNCHANGED <<fs, test_df, wetter, kiwo, school, public, merged, out>>

\* lines 97-99
ReadContinuation ==
    /\ pc = "read_continuation"
    /\ \E r \in {read_continuation(fs.test)} :
          /\ Advance(r, IF fs.test.exists THEN "standardize_continuation"
                        ELSE "ensure_numeric")
          /\ test_df' = Assigned(r, test_df)
    /\ UNCHANGED <<fs, umsatz, wetter, kiwo, school, public, merged, out>>

\* line 100
StandardizeContinuation ==
    /\ pc = "standardize_continuation"
    /\ \E r \in {standardize_sales_df(test_df)} :
          Advance(r, "combine_sales") /\ test_df' = Assigned(r, test_df)
    /\ UNCHANGED <<fs, umsatz, wetter, kiwo, school, public, merged, out>>

\* lines 102-119
CombineSales ==
    /\ pc = "combine_sales"
    /\ \E version \in PandasVersions :
          \E r \in {combine_sales(umsatz, test_df, version)} :
              Advance(r, "ensure_numeric") /\ umsatz' = Assigned(r, umsatz)
    /\ UNCHANGED <<fs, test_df, wetter, kiwo, school, public, merged, out>>

\* lines 122-125
EnsureNumeric ==
    /\ pc = "ensure_numeric"
    /\ \E r \in {ensure_numeric(umsatz)} :
          Advance(r, "merge_wetter") /\ umsatz' = Assigned(r, umsatz)
    /\ UNCHANGED <<fs, test_df, wetter, kiwo, school, public, merged, out>>

\* line 129
MergeWetter ==
    /\ pc = "merge_wetter"
    /\ \E r \in {merge_step(umsatz, wetter)} :
          Advance(r, "merge_kiwo") /\ merged' = Assigned(r, merged)
    /\ UNCHANGED <<fs, umsatz, test_df, wetter, kiwo, school, public, out>>

\* line 130
MergeKiwo ==
    /\ pc = "merge_kiwo"
    /\ \E r \in {merge_step(merged, kiwo)} :
          Advance(r, "merge_school") /\ merged' = Assigned(r, merged)
    /\ UNCHANGED <<fs, umsatz, test_df, wetter, kiwo, school, public, out>>

\* line 133
MergeSchool ==
    /\ pc = "merge_school"
    /\ \E r \in {merge_step(merged, school)} :
          Advance(r, "merge_public") /\ merged' = Assigned(r, merged)
    /\ UNCHANGED <<fs, umsatz, test_df, wetter, kiwo, school, public, out>>

\* line 134
MergePublic ==
    /\ pc = "merge_public"
    /\ \E r \in {merge_step(merged, public)} :
          Advance(r, "fill_holidays") /\ merged' = Assigned(r, merged)
    /\ UNCHANGED <<fs, umsatz, test_df, wetter, kiwo, school, public, out>>

\* lines 136-137
FillHolidays ==
    /\ pc = "fill_holidays"
    /\ \E r \in {fill_holidays(merged)} :
          Advance(r, "int_cols") /\ merged' = Assigned(r, merged)
    /\ UNCHANGED <<fs, umsatz, test_df, wetter, kiwo, school, public, out>>

\* lines 141-144
CoerceIntCols ==
    /\ pc = "int_cols"
    /\ \E r \in {coerce_int_cols(merged)} :
          Advance(r, "sort_rows") /\ merged' = Assigned(r, merged)
    /\ UNCHANGED <<fs, umsatz, test_df, wetter, kiwo, school, public, out>>

\* lines 147-149
ReorderRows ==
    /\ pc = "sort_rows"
    /\ \E r \in {reorder_rows(merged)} :
          Advance(r, "reorder_columns") /\ merged' = Assigned(r, merged)
    /\ UNCHANGED <<fs, umsatz, test_df, wetter, kiwo, school, public, out>>

\* lines 152-157
ReorderColumns ==
    /\ pc = "reorder_columns"
    /\ merged' = reorder_columns(merged)
    /\ pc' = "write"
    /\ UNCHANGED <<fs, err, umsatz, test_df, wetter, kiwo, school, public, out>>

\* lines 159-164
WriteCsv ==
    /\ pc = "write"
    /\ out' = [writes |-> out.writes + 1, df |-> merged]
    /\ pc' = "done"
    /\ UNCHANGED <<fs, err, umsatz, test_df, wetter, kiwo, school, public, merged>>

Next ==
    \/ ReadUmsatz \/ ReadWetter \/ ReadKiwo \/ ReadSchool \/ ReadPublic
    \/ PrepareSchool \/ PreparePublic
    \/ StandardizeSales \/ ReadContinuation \/ StandardizeContinuation
    \/ CombineSales \/ EnsureNumeric
    \/ MergeWetter \/ MergeKiwo \/ MergeSchool \/ MergePublic
    \/ FillHolidays \/ CoerceIntCols \/ ReorderRows \/ ReorderColumns
    \/ WriteCsv

Spec == Init /\ [][Next]_vars

\* ------------------------------------------------------------------------
\* Properties
\* ------------------------------------------------------------------------
Count(cols, c) == Cardinality(Positions(cols, c))

\* the table standardize_sales_df was given in line 96
SalesSource == read_and_normalize(fs.umsatz).df

\* the cells of the column at position i
ColumnCells(t, i) == {t.rows[r][i] : r \in 1..Len(t.rows)}

\* C1: after the four left joins the merged table has exactly as many rows
\* as the sales table had before the first join, whatever the auxiliary
\* tables contain (repeated dates included).
C1_RowCountPreserved ==
    pc = "fill_holidays" => Len(merged.rows) = Len(umsatz.rows)

\* C2: standardize_sales_df returns a table with the columns id, warengruppe
\* and umsatz; a canonical column that no source column matches by keyword
\* is created with every value missing.
C2_CanonicalColumns ==
    pc = "read_continuation" =>
        \A c \in {N_id, N_warengruppe, N_umsatz} :
            /\ HasCol(umsatz, c)
            /\ find_column(SalesSource, <<IF c = N_warengruppe THEN N_wareng ELSE c>>) = None
                 => \A i \in Positions(umsatz.cols, c) :
                        \A v \in ColumnCells(umsatz, i) : IsNA(v)

\* C4: when both holiday files are absent and the other inputs are sound,
\* the run does not fail, and what it writes has neither holiday column.
C4_HolidaysOptional ==
    (/\ ~fs.school.exists /\ ~fs.public.exists
     /\ read_and_normalize(fs.umsatz).err = ""
     /\ read_and_normalize(fs.wetter).err = ""
     /\ read_and_normalize(fs.kiwo).err = ""
     /\ ~fs.test.exists)
    => /\ ~(pc = "failed" /\ err = "FileNotFoundError")
       /\ pc = "done" => /\ ~HasCol(out.df, N_school_holiday)
                         /\ ~HasCol(out.df, N_public_holiday)

\* C6: the column reordering yields a permutation of the merged table's
\* columns: every column exactly once, the preferred ones that are present
\* first and in the preferred order, the others after them in their
\* existing relative order.
C6_ReorderIsPermutation ==
    [][pc = "reorder_columns" =>
        LET old == merged.cols
            new == merged'.cols
            isPref(c) == c \in Range(preferred)
        IN  /\ \A c \in Range(old) \cup Range(new) : Count(new, c) = Count(old, c)
            /\ SelectSeq(new, LAMBDA c : ~isPref(c)) = SelectSeq(old, LAMBDA c : ~isPref(c))
            /\ \A i, j \in 1..Len(new) :
                   (i < j /\ isPref(new[j])) =>
                       /\ isPref(new[i])
                       /\ PosIn(new[i], preferred, 1) <= PosIn(new[j], preferred, 1)
    ]_vars

\* C7: with a continuation file present the concatenated sales table has
\* exactly the columns date, id, warengruppe, umsatz and no others.
C7_FourColumns ==
    (fs.test.exists /\ pc = "ensure_numeric") => umsatz.cols = desired_cols

\* C9: a column already named id (warengruppe, umsatz) is left untouched by
\* standardize_sales_df: the result has exactly one column of that name and
\* it is the input's column.
C9_CanonicalUntouched ==
    pc = "read_continuation" =>
        \A c \in {N_id, N_warengruppe, N_umsatz} :
            HasCol(SalesSource, c) =>
                /\ Count(umsatz.cols, c) = 1
                /\ ColPos(umsatz, c) = ColPos(SalesSource, c)

\* C10: a sales row whose date is missing appears exactly once in the
\* written table, with every weather and event-day cell missing and 0 in
\* both holiday flags, also when auxiliary tables have rows without a date.
C10_MissingDateUnmatched ==
    pc = "done" =>
        LET d == ColPos(out.df, N_date)
            lost(t) == {r \in 1..Len(t.rows) : IsNA(t.rows[r][ColPos(t, N_date)])}
            aux == Range(WetterCols) \cup {N_KielerWoche}
        IN  /\ Cardinality(lost(out.df)) = Cardinality(lost(umsatz))
            /\ \A r \in lost(out.df) : \A i \in 1..Len(out.df.cols) :
                  /\ out.df.cols[i] \in aux => IsNA(out.df.rows[r][i])
                  /\ out.df.cols[i] \in {N_school_holiday, N_public_holiday}
                        => out.df.rows[r][i] = Num(0)

\* a file on which read_and_normalize fails: it cannot be read, or no header
\* name is a case variant of `date` or `datum`
DateNames == {N_date, <<"d", "a", "t", "u", "m">>}
DateLike(file) == {i \in 1..Len(file.cols) : Lower(file.cols[i]) \in DateNames}
Fatal(file) == ~file.exists \/ ~file.readable \/ DateLike(file) = {}

AnyFatal ==
    \/ \E f \in {fs.umsatz, fs.wetter, fs.kiwo, fs.school, fs.public} : Fatal(f)
    \/ (fs.test.exists /\ Fatal(fs.test))

\* the steps up to and including the load of the continuation file
LoadSteps == {"read_umsatz", "read_wetter", "read_kiwo", "read_school",
              "read_public", "prepare_school", "prepare_public", "standardize",
              "read_continuation"}

\* C3: when an input file is unreadable or has no recognizable date column
\* the run aborts with the error kept and never writes the output; the
\* output is written at most once, and only as the last step of a run in
\* which every read, the standardization and the joins succeeded.
C3_FatalInputNoOutput ==
    /\ out.writes <= 1
    /\ out.writes = 1 => pc = "done"
    /\ pc = "failed" => (err # "" /\ out.writes = 0)
    /\ AnyFatal => (out.writes = 0 /\ pc \in LoadSteps \cup {"failed"})

\* a run that loaded and prepared all five base files and then failed on a
\* continuation file without a date column
C3_Witness ==
    /\ pc = "failed" /\ err = "ValueError"
    /\ fs.test = NoDateFile
    /\ HasCol(public, N_public_holiday) /\ HasCol(umsatz, N_umsatz)
    /\ out.writes = 0

\* C5: read_and_normalize takes as the date key the first column whose
\* lower-cased name is `date` or `datum`, parses it and names it `date`
\* (the other columns keep their stripped names and their cells), and it
\* fails with the missing-date-column error exactly when no name matches.
C5_FirstDateColumn ==
    LET raw == fs.umsatz
        M == DateLike(raw)
        first == CHOOSE i \in M : \A j \in M : i <= j
    IN  (raw.exists /\ raw.readable) =>
          /\ pc # "read_umsatz" =>
                ((M = {}) <=> (pc = "failed" /\ err = "ValueError" /\ umsatz = NoTable))
          /\ pc = "read_wetter" =>
                /\ Len(umsatz.cols) = Len(raw.cols)
                /\ umsatz.cols[first] = N_date
                /\ \A i \in 1..Len(raw.cols) :
                      i # first => umsatz.cols[i] = Strip(raw.cols[i])
                /\ \A r \in 1..Len(raw.rows) : \A i \in 1..Len(raw.cols) :
                      umsatz.rows[r][i] =
                          IF i = first THEN ToDatetime(raw.rows[r][i])
                          ELSE raw.rows[r][i]

\* a file with two date-like headers, the first of them in upper case
C5_Witness ==
    /\ pc = "read_wetter"
    /\ fs.umsatz.cols = <<N_DATE, N_id, N_Datum>>
    /\ umsatz.cols = <<N_date, N_id, N_Datum>>
    /\ umsatz.rows[1][1] = Date(1)

\* the concatenated sales table and its date and id cells
Appended == fs.test.exists /\ pc = "ensure_numeric"
DateOf(r) == umsatz.rows[r][ColPos(umsatz, N_date)]
IdOf(r) == umsatz.rows[r][ColPos(umsatz, N_id)]
SameDate(a, b) == KeyEq(DateOf(a), DateOf(b))

\* rows a before b are in ascending date order, missing dates last
DateOrdered(a, b) ==
    /\ IsNA(DateOf(a)) => IsNA(DateOf(b))
    /\ (~IsNA(DateOf(a)) /\ ~IsNA(DateOf(b))) => DateOf(a).n <= DateOf(b).n

\* rows a before b of one date with both ids present are in text order
IdTextOrdered(a, b) ==
    (SameDate(a, b) /\ ~IsNA(IdOf(a)) /\ ~IsNA(IdOf(b)))
        => ~StrLess(IdOf(b).t, IdOf(a).t)

\* C8 as stated: the concatenated table is sorted by (date, id as text)
\* with missing values last, so that among the rows of one date a row with
\* a missing id comes after every row with an id.
C8_MissingIdsLast ==
    Appended =>
        \A a, b \in 1..Len(umsatz.rows) :
            a < b => /\ DateOrdered(a, b)
                     /\ IdTextOrdered(a, b)
                     /\ (SameDate(a, b) /\ IsNA(IdOf(a))) => IsNA(IdOf(b))

\* C8 amended: the concatenated table is sorted ascending by date with the
\* missing dates last, and the rows of one date that have an id are in
\* ascending order of the id text (a missing id is ordered by the text that
\* stands for it, not last).
C8_SortedByDateThenIdText ==
    Appended =>
        \A a, b \in 1..Len(umsatz.rows) :
            a < b => (DateOrdered(a, b) /\ IdTextOrdered(a, b))

\* a concatenated table of three rows where a row without id precedes a
\* row with an id on the same date, and a row without date is last
C8_Witness ==
    /\ Appended
    /\ Len(umsatz.rows) = 3
    /\ SameDate(1, 2) /\ ~IsNA(DateOf(1))
    /\ IsNA(IdOf(1)) /\ ~IsNA(IdOf(2))
    /\ IsNA(DateOf(3))

====
